---- MODULE Spec2Model ----
(***************************************************************************)
(* A model of the web class obfuscator (src/obfuscator.py).                *)
(*                                                                         *)
(* Text is modelled character by character: a character is a one-token TLA+*)
(* string ("b", "-", "U+00EB" for a non-ASCII letter), a Python str is a   *)
(* sequence of characters, and Ord gives the code point Python's ord()     *)
(* gives.  Class names, file names and CSS texts are such sequences.       *)
(***************************************************************************)
EXTENDS Integers, Sequences, FiniteSets, TLC

VARIABLES
    pc,             \* position in the operation under way
    method,         \* obfuscation method (parameter)
    exclude,        \* set of excluded class names (exclude / exclude_set)
    output_suffix,  \* parameter of obfuscate_website
    create_backup,  \* parameter of obfuscate_website (a bool)
    fs,             \* the file system: file name -> content
    fs0,            \* the file system when obfuscate_website was called
    css_files,      \* obfuscate_website: css_files
    html_files,     \* obfuscate_website: html_files
    idx,            \* index of the file the current for-loop is at
    all_classes,    \* set of class names collected / handed to the builder
    queue,          \* build_class_mapping: the names the for-loop has left
    mappings,       \* build_class_mapping: mappings (a sequence)
    used_names,     \* build_class_mapping: used_names
    stats,          \* obfuscate_website: stats
    reads,          \* history: the project files whose content was read
    writes,         \* history: the file names written, in order
    attempted,      \* history: <<phase, file>> of every loop iteration begun
    builds,         \* history: how many times build_class_mapping returned
    identifier,     \* obfuscate_identifier: argument
    obfuscated,     \* obfuscate_identifier: result
    content,        \* process_css_content: argument
    rewritten       \* process_css_content: result

\* the parameters of the call, which no step changes
cfgVars == <<method, output_suffix, create_backup, exclude, fs0>>
fileVars == <<css_files, html_files>>
histVars == <<reads, writes, attempted>>
loopVars == <<queue, mappings, used_names, builds>>
pureVars == <<identifier, obfuscated, content, rewritten>>
vars == <<pc, idx, fs, stats, all_classes, cfgVars, fileVars, histVars, loopVars, pureVars>>

-----------------------------------------------------------------------------
(* Characters *)

Lower == <<"a","b","c","d","e","f","g","h","i","j","k","l","m",
           "n","o","p","q","r","s","t","u","v","w","x","y","z">>
Upper == <<"A","B","C","D","E","F","G","H","I","J","K","L","M",
           "N","O","P","Q","R","S","T","U","V","W","X","Y","Z">>
Digits == <<"0","1","2","3","4","5","6","7","8","9">>
HexDigits == <<"0","1","2","3","4","5","6","7","8","9","a","b","c","d","e","f">>

Range(s) == {s[i] : i \in DOMAIN s}
IndexOf(s, c) == CHOOSE i \in DOMAIN s : s[i] = c

\* Letters outside ASCII that the model's inputs use: E-acute (upper case),
\* e-diaeresis, a-breve and a-ogonek (lower case).
NonAsciiUpper == {"U+00C9"}
NonAsciiLower == {"U+00EB", "U+0103", "U+0105"}

\* ord(char)
Ord(c) ==
    IF c \in Range(Lower) THEN 96 + IndexOf(Lower, c)
    ELSE IF c \in Range(Upper) THEN 64 + IndexOf(Upper, c)
    ELSE IF c \in Range(Digits) THEN 47 + IndexOf(Digits, c)
    ELSE CASE c = " " -> 32
           [] c = "-" -> 45
           [] c = "." -> 46
           [] c = ":" -> 58
           [] c = "_" -> 95
           [] c = "{" -> 123
           [] c = "}" -> 125
           [] c = "U+00C9" -> 201
           [] c = "U+00EB" -> 235
           [] c = "U+0103" -> 259
           [] c = "U+0105" -> 261

\* chr(n), for the code points of the ASCII letters
Chr(n) == IF n >= 97 THEN Lower[n - 96] ELSE Upper[n - 64]

\* str.isupper() and str.isalpha() of one character
IsUpper(c) == c \in Range(Upper) \cup NonAsciiUpper
IsAlpha(c) == c \in Range(Lower) \cup Range(Upper) \cup NonAsciiUpper \cup NonAsciiLower
IsDigit(c) == c \in Range(Digits)

\* Python's sorted() on str: lexicographic by code point
RECURSIVE StrLess(_, _)
StrLess(a, b) ==
    IF a = <<>> THEN b # <<>>
    ELSE IF b = <<>> THEN FALSE
    ELSE IF Ord(a[1]) # Ord(b[1]) THEN Ord(a[1]) < Ord(b[1])
    ELSE StrLess(Tail(a), Tail(b))

\* sorted(S) for a set S of str
RECURSIVE Sorted(_)
Sorted(S) ==
    IF S = {} THEN <<>>
    ELSE LET m == CHOOSE x \in S : \A y \in S \ {x} : StrLess(x, y)
         IN <<m>> \o Sorted(S \ {m})

RECURSIVE Concat(_)
Concat(ss) == IF ss = <<>> THEN <<>> ELSE ss[1] \o Concat(Tail(ss))

-----------------------------------------------------------------------------
(* obfuscate_identifier *)

AlphabetSize == 26

Methods == {"shift", "hash", "hex"}

\* a variant that takes every letter for a lower-case one
ShiftCharLower(char, shift) ==
    IF IsAlpha(char)
    THEN Chr(97 + ((Ord(char) - 97 + shift) % AlphabetSize))
    ELSE char

\* The "shift" branch, one character: lines 49-53.
ShiftChar(char, shift) ==
    IF IsAlpha(char)
    THEN LET base == IF IsUpper(char) THEN 65 ELSE 97
         IN Chr(base + ((Ord(char) - base + shift) % AlphabetSize))
    ELSE char

\* identifier.encode('utf-8'): the bytes of a str (code points below 0x800)
Utf8Char(c) ==
    IF Ord(c) < 128 THEN <<Ord(c)>>
    ELSE <<192 + (Ord(c) \div 64), 128 + (Ord(c) % 64)>>

RECURSIVE Utf8(_)
Utf8(s) == IF s = <<>> THEN <<>> ELSE Utf8Char(s[1]) \o Utf8(Tail(s))

\* bytes.hex()
RECURSIVE HexOfBytes(_)
HexOfBytes(bs) ==
    IF bs = <<>> THEN <<>>
    ELSE <<HexDigits[(bs[1] \div 16) + 1], HexDigits[(bs[1] % 16) + 1]>> \o HexOfBytes(Tail(bs))

\* hashlib.md5(...).hexdigest()[:8].  MD5 itself is not computed: the model
\* keeps what the program relies on (a deterministic digest of the bytes,
\* printed as 8 lower-case hex digits) over a digest space of DigestSpace
\* values, so that two identifiers with the same digest exist among the
\* model's inputs as they do among all strings for the real digest.
DigestSpace == 4

RECURSIVE DigestOf(_, _)
DigestOf(bs, h) ==
    IF bs = <<>> THEN h ELSE DigestOf(Tail(bs), ((h * 31) + bs[1]) % DigestSpace)

RECURSIVE HexOfNat(_, _)
HexOfNat(n, width) ==
    IF width = 0 THEN <<>>
    ELSE HexOfNat(n \div 16, width - 1) \o <<HexDigits[(n % 16) + 1]>>

Md5Hex8(s) == HexOfNat(DigestOf(Utf8(s), 7), 8)

\* obfuscate_identifier raises ValueError (line 66)
ObfuscateRaises(id, m) == id # <<>> /\ m \notin Methods

\* The value standing for "no value: ValueError was raised"
ValueError == <<"ValueError">>

obfuscate_identifier(id, m) ==
    IF id = <<>> THEN id
    ELSE IF m = "shift"
         THEN [i \in 1..Len(id) |-> ShiftChar(id[i], Len(id))]
    ELSE IF m = "hash" THEN <<"c">> \o Md5Hex8(id)
    ELSE IF m = "hex" THEN <<"c">> \o HexOfBytes(Utf8(id))
    ELSE ValueError

-----------------------------------------------------------------------------
(* build_class_mapping *)

\* str(n) for n >= 0
RECURSIVE DecimalStr(_)
DecimalStr(n) ==
    IF n < 10 THEN <<Digits[n + 1]>>
    ELSE DecimalStr(n \div 10) \o <<Digits[(n % 10) + 1]>>

\* ClassMapping(original, obfuscated)
ClassMapping(o, b) == [original |-> o, obfuscated |-> b]

\* a variant that forgets the excluded names
SkippedEmptyOnly(class_name, excl) == class_name = <<>>

\* line 153: the names the loop passes over
Skipped(class_name, excl) == class_name = <<>> \/ class_name \in excl

\* lines 159-163: the collision loop
RECURSIVE UniqueFrom(_, _, _, _)
UniqueFrom(current, original_obfuscated, counter, used) ==
    IF current \notin used THEN current
    ELSE UniqueFrom(original_obfuscated \o <<"_">> \o DecimalStr(counter),
                    original_obfuscated, counter + 1, used)

\* a variant that appends _1 once and does not look again
UniqueNameOneTry(candidate, used) ==
    IF candidate \notin used THEN candidate ELSE candidate \o <<"_", "1">>

UniqueName(candidate, used) == UniqueFrom(candidate, candidate, 1, used)

MaxOf(S) == CHOOSE x \in S : \A y \in S : y <= x

\* sorted(mappings, key=lambda x: len(x.original), reverse=True): a stable
\* sort, so mappings of equal key keep the order they had.
RECURSIVE TakeByLength(_, _)
TakeByLength(ms, n) ==
    IF n < 0 THEN <<>>
    ELSE SelectSeq(ms, LAMBDA m : Len(m.original) = n) \o TakeByLength(ms, n - 1)

Reverse(s) == [i \in 1..Len(s) |-> s[Len(s) + 1 - i]]

RECURSIVE TakeByLengthUp(_, _, _)
TakeByLengthUp(ms, n, top) ==
    IF n > top THEN <<>>
    ELSE SelectSeq(ms, LAMBDA m : Len(m.original) = n) \o TakeByLengthUp(ms, n + 1, top)

\* the ascending sort, reversed afterwards: equal keys end up reversed too
SortAscendingThenReverse(ms) ==
    IF ms = <<>> THEN ms
    ELSE Reverse(TakeByLengthUp(ms, 0, MaxOf({Len(ms[i].original) : i \in DOMAIN ms})))

SortByLengthDesc(ms) ==
    IF ms = <<>> THEN ms
    ELSE TakeByLength(ms, MaxOf({Len(ms[i].original) : i \in DOMAIN ms}))

\* lines 152-166 as a function of the names left: used by the operations that
\* need a Mapping Set as their input.  m is a valid method.
RECURSIVE BuildLoop(_, _, _, _, _)
BuildLoop(names, m, excl, ms, used) ==
    IF names = <<>> THEN ms
    ELSE IF Skipped(names[1], excl) THEN BuildLoop(Tail(names), m, excl, ms, used)
    ELSE LET name == UniqueName(obfuscate_identifier(names[1], m), used)
         IN BuildLoop(Tail(names), m, excl,
                      Append(ms, ClassMapping(names[1], name)), used \cup {name})

build_class_mapping(classes, m, excl) ==
    SortByLengthDesc(BuildLoop(Sorted(classes), m, excl, <<>>, {}))

-----------------------------------------------------------------------------
(* process_css_content *)

\* what \w matches
IsWord(c) == IsAlpha(c) \/ IsDigit(c) \/ c = "_"

\* the pattern \.<re.escape(original)>\b matches at the start of text
MatchesAt(text, original) ==
    /\ Len(text) >= 1 + Len(original)
    /\ text[1] = "."
    /\ SubSeq(text, 2, 1 + Len(original)) = original
    /\ LET before == IsWord(text[1 + Len(original)])
           after == Len(text) > 1 + Len(original) /\ IsWord(text[2 + Len(original)])
       IN before # after

\* re.sub(pattern, replacement, content): leftmost matches, not overlapping
RECURSIVE ReSub(_, _, _)
ReSub(original, replacement, text) ==
    IF text = <<>> THEN <<>>
    ELSE IF MatchesAt(text, original)
         THEN replacement \o ReSub(original, replacement,
                                   SubSeq(text, 2 + Len(original), Len(text)))
         ELSE <<text[1]>> \o ReSub(original, replacement, Tail(text))

RECURSIVE process_css_content(_, _)
process_css_content(text, ms) ==
    IF ms = <<>> THEN text
    ELSE process_css_content(ReSub(ms[1].original, <<".">> \o ms[1].obfuscated, text),
                             Tail(ms))

-----------------------------------------------------------------------------
(* Class extraction *)

\* a character an identifier token goes on with
IsNameChar(c) == IsAlpha(c) \/ IsDigit(c) \/ c = "_" \/ c = "-"

\* the longest run of identifier characters text starts with
RECURSIVE NameRun(_)
NameRun(text) ==
    IF text = <<>> \/ ~IsNameChar(text[1]) THEN <<>>
    ELSE <<text[1]>> \o NameRun(Tail(text))

\* the run is an ident token (it does not start as a number does)
IsIdent(run) ==
    /\ run # <<>>
    /\ ~IsDigit(run[1])
    /\ run[1] = "-" => (Len(run) >= 2 /\ ~IsDigit(run[2]))

\* extract_classes_from_css: the ident tokens that follow a "." in the prelude
\* of a qualified rule.  A prelude that the text ends in, with no {} block
\* after it, is no rule.  depth counts the open blocks, pending holds the
\* classes of the prelude under way.
RECURSIVE ExtractCss(_, _, _, _)
ExtractCss(text, depth, pending, found) ==
    IF text = <<>> THEN found
    ELSE IF text[1] = "{" THEN ExtractCss(Tail(text), depth + 1, {}, found \cup pending)
    ELSE IF text[1] = "}"
         THEN ExtractCss(Tail(text), IF depth > 0 THEN depth - 1 ELSE 0, {}, found)
    ELSE IF depth = 0 /\ text[1] = "." /\ IsIdent(NameRun(Tail(text)))
         THEN LET run == NameRun(Tail(text))
              IN ExtractCss(SubSeq(text, 2 + Len(run), Len(text)), depth,
                            pending \cup {run}, found)
    ELSE IF depth = 0 /\ IsNameChar(text[1])
         THEN LET run == NameRun(text)
              IN ExtractCss(SubSeq(text, 1 + Len(run), Len(text)), depth, pending, found)
    ELSE ExtractCss(Tail(text), depth, pending, found)

extract_classes_from_css(css_content) == ExtractCss(css_content, 0, {}, {})

\* A document as the parser hands it over: the text of its <style> element
\* (for a CSS file, the whole text), the href of each stylesheet link and the
\* tokens of the class attributes, in document order.
Doc(text, links, classes) == [text |-> text, links |-> links, classes |-> classes]

extract_classes_from_html(doc) ==
    Range(doc.classes) \cup
        (IF doc.text # <<>> THEN extract_classes_from_css(doc.text) ELSE {})

-----------------------------------------------------------------------------
(* File names.  The project is one directory: a path is a file name. *)

EndsWith(s, suffix) ==
    Len(s) >= Len(suffix) /\ SubSeq(s, Len(s) - Len(suffix) + 1, Len(s)) = suffix

\* the place of the last "." of name, 0 when it has none
LastDot(name) ==
    IF \E i \in DOMAIN name : name[i] = "."
    THEN MaxOf({i \in DOMAIN name : name[i] = "."})
    ELSE 0

\* Path(name).suffix and Path(name).stem
PathSuffix(name) ==
    IF 1 < LastDot(name) /\ LastDot(name) < Len(name)
    THEN SubSeq(name, LastDot(name), Len(name))
    ELSE <<>>

PathStem(name) == SubSeq(name, 1, Len(name) - Len(PathSuffix(name)))

generate_obfuscated_filename(file_path, suffix) ==
    PathStem(file_path) \o suffix \o PathSuffix(file_path)

DotCss == <<".", "c", "s", "s">>
DotHtml == <<".", "h", "t", "m", "l">>
DotBackup == <<".", "b", "a", "c", "k", "u", "p">>

\* create_backup(file_path): the file system after the copy
BackupPath(file_path) == file_path \o DotBackup

CreateBackupCopy(files, file_path) ==
    (BackupPath(file_path) :> files[file_path]) @@ files

\* scan_project_files: the sorted names with one of the extensions
scan_project_files(files) ==
    Sorted({f \in DOMAIN files : EndsWith(f, DotHtml) \/ EndsWith(f, DotCss)})

-----------------------------------------------------------------------------
(* process_html_content *)

\* class_dict.get(cls, cls)
Lookup(ms, cls) ==
    IF \E i \in DOMAIN ms : ms[i].original = cls
    THEN ms[CHOOSE i \in DOMAIN ms : ms[i].original = cls].obfuscated
    ELSE cls

\* lines 198-212, for an href that is a bare file name
RewriteHref(href, css, suffix) ==
    IF href # <<>> /\ href \in Range(css)
    THEN PathStem(href) \o suffix \o PathSuffix(href)
    ELSE href

process_html_content(doc, ms, css, suffix) ==
    Doc(IF doc.text # <<>> THEN process_css_content(doc.text, ms) ELSE doc.text,
        [i \in DOMAIN doc.links |-> RewriteHref(doc.links[i], css, suffix)],
        [i \in DOMAIN doc.classes |-> Lookup(ms, doc.classes[i])])

-----------------------------------------------------------------------------
(* obfuscate_website *)

StatsInit ==
    [processed_css_files |-> <<>>, processed_html_files |-> <<>>,
     total_classes |-> 0, class_mappings |-> <<>>,
     errors |-> <<>>, backups_created |-> <<>>]

\* an entry of stats['errors']: the message's prefix and the file it names
ErrorEntry(kind, file) == [kind |-> kind, file |-> file]

Processed(original, output) == [original |-> original, obfuscated |-> output]

WithError(st, kind, file) ==
    [st EXCEPT !.errors = Append(@, ErrorEntry(kind, file))]

\* lines 282-289
ScanProject ==
    /\ pc = "start"
    /\ css_files' = SelectSeq(scan_project_files(fs), LAMBDA f : EndsWith(f, DotCss))
    /\ html_files' = SelectSeq(scan_project_files(fs), LAMBDA f : EndsWith(f, DotHtml))
    /\ all_classes' = {}
    /\ pc' = "scan_css"
    /\ idx' = 1
    /\ UNCHANGED <<fs, stats, cfgVars, histVars, loopVars, pureVars>>

\* lines 291-294: one CSS file read and its classes collected
ScanCssOk ==
    /\ pc = "scan_css"
    /\ idx <= Len(css_files)
    /\ reads' = reads \cup {css_files[idx]}
    /\ attempted' = attempted \cup {<<"scan_css", css_files[idx]>>}
    /\ all_classes' = all_classes \cup extract_classes_from_css(fs[css_files[idx]].text)
    /\ idx' = idx + 1
    /\ UNCHANGED <<pc, fs, stats, writes, cfgVars, fileVars, loopVars, pureVars>>

\* a variant in which the failure of a file ends the run
ScanCssFailAbort ==
    /\ pc = "scan_css"
    /\ idx <= Len(css_files)
    /\ attempted' = attempted \cup {<<"scan_css", css_files[idx]>>}
    /\ stats' = WithError(stats, "CSS scan error", css_files[idx])
    /\ pc' = "done"
    /\ UNCHANGED <<idx, fs, all_classes, reads, writes, cfgVars, fileVars, loopVars, pureVars>>

\* lines 295-296: reading or parsing the file raised
ScanCssFail ==
    /\ pc = "scan_css"
    /\ idx <= Len(css_files)
    /\ attempted' = attempted \cup {<<"scan_css", css_files[idx]>>}
    /\ stats' = WithError(stats, "CSS scan error", css_files[idx])
    /\ idx' = idx + 1
    /\ UNCHANGED <<pc, fs, all_classes, reads, writes, cfgVars, fileVars, loopVars, pureVars>>

\* a variant that goes on to the build without scanning the HTML files
ScanCssEndSkipsHtml ==
    /\ pc = "scan_css"
    /\ idx > Len(css_files)
    /\ pc' = "check"
    /\ idx' = 1
    /\ UNCHANGED <<fs, stats, all_classes, cfgVars, fileVars, histVars, loopVars, pureVars>>

\* the loop of line 291 is over
ScanCssEnd ==
    /\ pc = "scan_css"
    /\ idx > Len(css_files)
    /\ pc' = "scan_html"
    /\ idx' = 1
    /\ UNCHANGED <<fs, stats, all_classes, cfgVars, fileVars, histVars, loopVars, pureVars>>

\* lines 298-301
ScanHtmlOk ==
    /\ pc = "scan_html"
    /\ idx <= Len(html_files)
    /\ reads' = reads \cup {html_files[idx]}
    /\ attempted' = attempted \cup {<<"scan_html", html_files[idx]>>}
    /\ all_classes' = all_classes \cup extract_classes_from_html(fs[html_files[idx]])
    /\ idx' = idx + 1
    /\ UNCHANGED <<pc, fs, stats, writes, cfgVars, fileVars, loopVars, pureVars>>

\* lines 302-303
ScanHtmlFail ==
    /\ pc = "scan_html"
    /\ idx <= Len(html_files)
    /\ attempted' = attempted \cup {<<"scan_html", html_files[idx]>>}
    /\ stats' = WithError(stats, "HTML scan error", html_files[idx])
    /\ idx' = idx + 1
    /\ UNCHANGED <<pc, fs, all_classes, reads, writes, cfgVars, fileVars, loopVars, pureVars>>

ScanHtmlEnd ==
    /\ pc = "scan_html"
    /\ idx > Len(html_files)
    /\ pc' = "check"
    /\ UNCHANGED <<idx, fs, stats, all_classes, cfgVars, fileVars, histVars, loopVars, pureVars>>

\* lines 307-309: nothing to obfuscate, the statistics are returned
NoClasses ==
    /\ pc = "check"
    /\ all_classes = {}
    /\ pc' = "done"
    /\ UNCHANGED <<idx, fs, stats, all_classes, cfgVars, fileVars, histVars, loopVars, pureVars>>

\* lines 312-313 and 146-150: build_class_mapping is entered
CallBuild ==
    /\ pc = "check"
    /\ all_classes # {}
    /\ queue' = Sorted(all_classes)
    /\ mappings' = <<>>
    /\ used_names' = {}
    /\ pc' = "build"
    /\ UNCHANGED <<idx, fs, stats, all_classes, builds, cfgVars, fileVars, histVars, pureVars>>

\* lines 152-154: the loop passes over an empty or excluded name
BuildSkip ==
    /\ pc = "build"
    /\ queue # <<>>
    /\ Skipped(queue[1], exclude)
    /\ queue' = Tail(queue)
    /\ UNCHANGED <<pc, idx, fs, stats, all_classes, mappings, used_names, builds,
                   cfgVars, fileVars, histVars, pureVars>>

\* lines 156-166: one name is given its obfuscated name
BuildAssign ==
    /\ pc = "build"
    /\ queue # <<>>
    /\ ~Skipped(queue[1], exclude)
    /\ ~ObfuscateRaises(queue[1], method)
    /\ LET name == UniqueName(obfuscate_identifier(queue[1], method), used_names)
       IN /\ used_names' = used_names \cup {name}
          /\ mappings' = Append(mappings, ClassMapping(queue[1], name))
    /\ queue' = Tail(queue)
    /\ UNCHANGED <<pc, idx, fs, stats, all_classes, builds, cfgVars, fileVars, histVars, pureVars>>

\* line 156 raises ValueError (line 66), which lines 373-376 catch: the error
\* is appended to stats['errors'] and the statistics are returned
BuildRaise ==
    /\ pc = "build"
    /\ queue # <<>>
    /\ ~Skipped(queue[1], exclude)
    /\ ObfuscateRaises(queue[1], method)
    /\ stats' = WithError(stats, "Unknown obfuscation method", <<>>)
    /\ pc' = "done"
    /\ UNCHANGED <<idx, fs, all_classes, cfgVars, fileVars, histVars, loopVars, pureVars>>

\* line 169, then lines 313-315 of the caller
BuildReturn ==
    /\ pc = "build"
    /\ queue = <<>>
    /\ mappings' = SortByLengthDesc(mappings)
    /\ builds' = builds + 1
    /\ stats' = [stats EXCEPT !.total_classes = Len(mappings),
                              !.class_mappings = SortByLengthDesc(mappings)]
    /\ pc' = "rewrite_css"
    /\ idx' = 1
    /\ UNCHANGED <<fs, all_classes, queue, used_names, cfgVars, fileVars, histVars, pureVars>>


\* lines 321-322: create_backup is the bool parameter here, not the function of
\* line 232, so calling it raises TypeError, which lines 333-334 record
RewriteCssBackupError ==
    /\ pc = "rewrite_css"
    /\ idx <= Len(css_files)
    /\ create_backup
    /\ attempted' = attempted \cup {<<"rewrite_css", css_files[idx]>>}
    /\ stats' = WithError(stats, "CSS process error", css_files[idx])
    /\ idx' = idx + 1
    /\ UNCHANGED <<pc, fs, all_classes, reads, writes, cfgVars, fileVars, loopVars, pureVars>>

\* line 326 raises: the file cannot be read
RewriteCssReadFail ==
    /\ pc = "rewrite_css"
    /\ idx <= Len(css_files)
    /\ ~create_backup
    /\ attempted' = attempted \cup {<<"rewrite_css", css_files[idx]>>}
    /\ stats' = WithError(stats, "CSS process error", css_files[idx])
    /\ idx' = idx + 1
    /\ UNCHANGED <<pc, fs, all_classes, reads, writes, cfgVars, fileVars, loopVars, pureVars>>

\* line 330 raises: the output cannot be written
RewriteCssWriteFail ==
    /\ pc = "rewrite_css"
    /\ idx <= Len(css_files)
    /\ ~create_backup
    /\ reads' = reads \cup {css_files[idx]}
    /\ attempted' = attempted \cup {<<"rewrite_css", css_files[idx]>>}
    /\ stats' = WithError(stats, "CSS process error", css_files[idx])
    /\ idx' = idx + 1
    /\ UNCHANGED <<pc, fs, all_classes, writes, cfgVars, fileVars, loopVars, pureVars>>

\* lines 326-331: the file is read, rewritten and written to its output name
RewriteCssOk ==
    /\ pc = "rewrite_css"
    /\ idx <= Len(css_files)
    /\ ~create_backup
    /\ LET file == css_files[idx]
           output == generate_obfuscated_filename(file, output_suffix)
       IN /\ fs' = (output :> Doc(process_css_content(fs[file].text, mappings), fs[file].links, fs[file].classes)) @@ fs
          /\ writes' = Append(writes, output)
          /\ stats' = [stats EXCEPT !.processed_css_files = Append(@, Processed(file, output))]
          /\ reads' = reads \cup {file}
          /\ attempted' = attempted \cup {<<"rewrite_css", file>>}
    /\ idx' = idx + 1
    /\ UNCHANGED <<pc, all_classes, cfgVars, fileVars, loopVars, pureVars>>

\* the loop of line 319 is over
RewriteCssEnd ==
    /\ pc = "rewrite_css"
    /\ idx > Len(css_files)
    /\ pc' = "rewrite_html"
    /\ idx' = 1
    /\ UNCHANGED <<fs, stats, all_classes, cfgVars, fileVars, histVars, loopVars, pureVars>>

\* lines 340-341: create_backup is the bool parameter here, not the function of
\* line 232, so calling it raises TypeError, which lines 352-353 record
RewriteHtmlBackupError ==
    /\ pc = "rewrite_html"
    /\ idx <= Len(html_files)
    /\ create_backup
    /\ attempted' = attempted \cup {<<"rewrite_html", html_files[idx]>>}
    /\ stats' = WithError(stats, "HTML process error", html_files[idx])
    /\ idx' = idx + 1
    /\ UNCHANGED <<pc, fs, all_classes, reads, writes, cfgVars, fileVars, loopVars, pureVars>>

\* line 345 raises: the file cannot be read
RewriteHtmlReadFail ==
    /\ pc = "rewrite_html"
    /\ idx <= Len(html_files)
    /\ ~create_backup
    /\ attempted' = attempted \cup {<<"rewrite_html", html_files[idx]>>}
    /\ stats' = WithError(stats, "HTML process error", html_files[idx])
    /\ idx' = idx + 1
    /\ UNCHANGED <<pc, fs, all_classes, reads, writes, cfgVars, fileVars, loopVars, pureVars>>

\* line 349 raises: the output cannot be written
RewriteHtmlWriteFail ==
    /\ pc = "rewrite_html"
    /\ idx <= Len(html_files)
    /\ ~create_backup
    /\ reads' = reads \cup {html_files[idx]}
    /\ attempted' = attempted \cup {<<"rewrite_html", html_files[idx]>>}
    /\ stats' = WithError(stats, "HTML process error", html_files[idx])
    /\ idx' = idx + 1
    /\ UNCHANGED <<pc, fs, all_classes, writes, cfgVars, fileVars, loopVars, pureVars>>

\* lines 345-350: the file is read, rewritten and written to its output name
RewriteHtmlOk ==
    /\ pc = "rewrite_html"
    /\ idx <= Len(html_files)
    /\ ~create_backup
    /\ LET file == html_files[idx]
           output == generate_obfuscated_filename(file, output_suffix)
       IN /\ fs' = (output :> process_html_content(fs[file], mappings, css_files, output_suffix)) @@ fs
          /\ writes' = Append(writes, output)
          /\ stats' = [stats EXCEPT !.processed_html_files = Append(@, Processed(file, output))]
          /\ reads' = reads \cup {file}
          /\ attempted' = attempted \cup {<<"rewrite_html", file>>}
    /\ idx' = idx + 1
    /\ UNCHANGED <<pc, all_classes, cfgVars, fileVars, loopVars, pureVars>>

\* the loop of line 338 is over
RewriteHtmlEnd ==
    /\ pc = "rewrite_html"
    /\ idx > Len(html_files)
    /\ pc' = "done"
    /\ idx' = 1
    /\ UNCHANGED <<fs, stats, all_classes, cfgVars, fileVars, histVars, loopVars, pureVars>>

-----------------------------------------------------------------------------
(* The operations on their own: obfuscate_identifier, process_css_content *)

\* lines 41-63: obfuscate_identifier returns
Obfuscate ==
    /\ pc = "obfuscate"
    /\ ~ObfuscateRaises(identifier, method)
    /\ obfuscated' = obfuscate_identifier(identifier, method)
    /\ pc' = "returned"
    /\ UNCHANGED <<idx, fs, stats, all_classes, cfgVars, fileVars, histVars, loopVars,
                   identifier, content, rewritten>>

\* lines 65-66: obfuscate_identifier raises
ObfuscateRaise ==
    /\ pc = "obfuscate"
    /\ ObfuscateRaises(identifier, method)
    /\ obfuscated' = ValueError
    /\ pc' = "raised"
    /\ UNCHANGED <<idx, fs, stats, all_classes, cfgVars, fileVars, histVars, loopVars,
                   identifier, content, rewritten>>

\* lines 173-178: process_css_content returns
ProcessCss ==
    /\ pc = "process_css"
    /\ rewritten' = process_css_content(content, mappings)
    /\ pc' = "returned"
    /\ UNCHANGED <<idx, fs, stats, all_classes, cfgVars, fileVars, histVars, loopVars,
                   identifier, obfuscated, content>>

-----------------------------------------------------------------------------
(* Inputs *)

\* the longest identifier handed to obfuscate_identifier
MaxLen == 3
\* the most class names handed to build_class_mapping
MaxClasses == 4
\* the most pieces a CSS text handed to process_css_content is made of
MaxParts == 5
\* the most files of a project
MaxFiles == 2

\* every str over alphabet of at most n characters
Strings(alphabet, n) == UNION {[1..k -> alphabet] : k \in 0..n}

btn == <<"b", "t", "n">>
ewq == <<"e", "w", "q">>
active == <<"a", "c", "t", "i", "v", "e">>
hidden == <<"h", "i", "d", "d", "e", "n">>
btn_primary == btn \o <<"-", "p", "r", "i", "m", "a", "r", "y">>
color_red == <<"{", "c", "o", "l", "o", "r", ":", "r", "e", "d", "}">>
color_blue == <<"{", "c", "o", "l", "o", "r", ":", "b", "l", "u", "e", "}">>

ShiftAlphabet == {"b", "t", "n", "y", "Z", "-", "1", "U+00EB", "U+00C9"}

AllMethods == Methods \cup {"rot13"}

\* Class names for the builder: the empty name, the names of the repository's
\* test, and names whose "shift" transforms meet: i, e-diaeresis and a-ogonek
\* all give j, and a-breve followed by _1 gives j_1; j is a class name too.
ClassUniverse ==
    {<<>>, btn, active, hidden, <<"i">>, <<"j">>, <<"U+00EB">>, <<"U+0105">>,
     <<"U+0103", "_", "1">>}

ExcludeUniverse == {active, <<"i">>, <<"j">>, <<"z">>}

\* CSS texts: up to MaxParts pieces, one after the other
CssPieces == {<<".">> \o btn, <<"-", "p", "r", "i", "m", "a", "r", "y">>, color_red, color_blue}

CssTexts == {Concat(ps) : ps \in Strings(CssPieces, MaxParts)}

CssClasses == {btn, btn_primary}

\* CSS texts over one-letter classes, where the "shift" transform of one class
\* is the name of the next: a gives b, b gives c
ChainPieces == {<<".", "a">>, <<".", "b">>, <<"{", "}">>}

ChainTexts == {Concat(ps) : ps \in Strings(ChainPieces, MaxParts)}

ChainClasses == {<<"a">>, <<"b">>, <<"c">>}

\* the project's files
DefaultSuffix == <<"_", "o", "b", "f", "u", "s", "c", "a", "t", "e", "d">>
s_css == <<"s">> \o DotCss
s_obfuscated_css == <<"s">> \o DefaultSuffix \o DotCss
i_html == <<"i">> \o DotHtml

FileUniverse == {s_css, s_obfuscated_css, i_html}

CssBtn == Doc(<<".">> \o btn \o <<"{", "}">>, <<>>, <<>>)
CssNone == Doc(<<>>, <<>>, <<>>)
HtmlBtn == Doc(<<".">> \o btn \o <<"{", "}">>, <<s_css>>, <<btn>>)
HtmlNone == Doc(<<>>, <<s_css>>, <<>>)

ContentsFor(name) == IF EndsWith(name, DotCss) THEN {CssBtn, CssNone} ELSE {HtmlBtn, HtmlNone}

Projects ==
    UNION {{f \in [names -> {CssBtn, CssNone, HtmlBtn, HtmlNone}] :
                \A n \in names : f[n] \in ContentsFor(n)} :
           names \in {ns \in SUBSET FileUniverse : Cardinality(ns) \in 1..MaxFiles}}

-----------------------------------------------------------------------------
(* Specifications *)

\* what every specification starts from, but for its own inputs
Idle ==
    /\ idx = 1
    /\ stats = StatsInit
    /\ css_files = <<>>
    /\ html_files = <<>>
    /\ reads = {}
    /\ writes = <<>>
    /\ attempted = {}
    /\ used_names = {}
    /\ builds = 0
    /\ obfuscated = <<>>
    /\ rewritten = <<>>

\* obfuscate_identifier is called
InitShift ==
    /\ pc = "obfuscate"
    /\ identifier \in Strings(ShiftAlphabet, MaxLen)
    /\ method \in AllMethods
    /\ exclude = {}
    /\ output_suffix = DefaultSuffix
    /\ create_backup = FALSE
    /\ fs = <<>>
    /\ fs0 = fs
    /\ all_classes = {}
    /\ queue = <<>>
    /\ mappings = <<>>
    /\ content = <<>>
    /\ Idle

NextShift == Obfuscate \/ ObfuscateRaise

SpecShift == InitShift /\ [][NextShift]_vars

\* build_class_mapping is called: the state at line 152
InitBuild ==
    /\ pc = "build"
    /\ all_classes \in {cs \in SUBSET ClassUniverse : Cardinality(cs) <= MaxClasses}
    /\ method \in Methods
    /\ exclude \in SUBSET ExcludeUniverse
    /\ queue = Sorted(all_classes)
    /\ mappings = <<>>
    /\ output_suffix = DefaultSuffix
    /\ create_backup = FALSE
    /\ fs = <<>>
    /\ fs0 = fs
    /\ identifier = <<>>
    /\ content = <<>>
    /\ Idle

NextBuild == BuildSkip \/ BuildAssign \/ BuildReturn

SpecBuild == InitBuild /\ [][NextBuild]_vars

\* process_css_content is called with a Mapping Set of build_class_mapping
InitCss ==
    /\ pc = "process_css"
    /\ \/ /\ content \in CssTexts
          /\ all_classes \in (SUBSET CssClasses) \ {{}}
          /\ exclude \in SUBSET {btn_primary}
       \/ /\ content \in ChainTexts
          /\ all_classes \in (SUBSET ChainClasses) \ {{}}
          /\ exclude \in SUBSET {<<"b">>}
    /\ method = "shift"
    /\ mappings = build_class_mapping(all_classes, method, exclude)
    /\ queue = <<>>
    /\ output_suffix = DefaultSuffix
    /\ create_backup = FALSE
    /\ fs = <<>>
    /\ fs0 = fs
    /\ identifier = <<>>
    /\ Idle

NextCss == ProcessCss

SpecCss == InitCss /\ [][NextCss]_vars

\* obfuscate_website is called on a project
Init ==
    /\ pc = "start"
    /\ fs \in Projects
    /\ fs0 = fs
    /\ method \in AllMethods
    /\ exclude \in {{}, {btn}}
    /\ output_suffix \in {DefaultSuffix, <<>>}
    /\ create_backup \in BOOLEAN
    /\ all_classes = {}
    /\ queue = <<>>
    /\ mappings = <<>>
    /\ identifier = <<>>
    /\ content = <<>>
    /\ Idle

Next ==
    \/ ScanProject
    \/ ScanCssOk \/ ScanCssFail \/ ScanCssEnd
    \/ ScanHtmlOk \/ ScanHtmlFail \/ ScanHtmlEnd
    \/ NoClasses \/ CallBuild
    \/ BuildSkip \/ BuildAssign \/ BuildRaise \/ BuildReturn
    \/ RewriteCssBackupError \/ RewriteCssReadFail \/ RewriteCssWriteFail
    \/ RewriteCssOk \/ RewriteCssEnd
    \/ RewriteHtmlBackupError \/ RewriteHtmlReadFail \/ RewriteHtmlWriteFail
    \/ RewriteHtmlOk \/ RewriteHtmlEnd

Spec == Init /\ [][Next]_vars

-----------------------------------------------------------------------------
(* Properties of obfuscate_identifier (SpecShift) *)

\* C5: obfuscate_identifier(s, "shift") for non-empty s has the length of s;
\* an alphabetic character of s becomes the letter of its own case (A-Z for an
\* upper-case character, a-z otherwise) that lies len(s) places further on,
\* modulo 26; any other character stays as it is; "btn" gives "ewq".
C5_ShiftRotates ==
    (pc = "returned" /\ method = "shift" /\ identifier # <<>>) =>
        /\ Len(obfuscated) = Len(identifier)
        /\ \A i \in DOMAIN identifier :
              IF IsAlpha(identifier[i])
              THEN /\ obfuscated[i] \in
                          (IF IsUpper(identifier[i]) THEN Range(Upper) ELSE Range(Lower))
                   /\ (Ord(identifier[i]) + Len(identifier) - Ord(obfuscated[i]))
                          % AlphabetSize = 0
              ELSE obfuscated[i] = identifier[i]
        /\ identifier = btn => obfuscated = ewq

\* C5 witness: "Z-y" has been shifted by 3 to "C-b": an upper-case and a
\* lower-case letter that wrap around, and a character that is no letter.
C5_Witness ==
    /\ pc = "returned"
    /\ method = "shift"
    /\ identifier = <<"Z", "-", "y">>
    /\ obfuscated = <<"C", "-", "b">>

-----------------------------------------------------------------------------
(* Properties of build_class_mapping (SpecBuild) *)

Originals(ms) == {ms[i].original : i \in DOMAIN ms}
Obfuscateds(ms) == {ms[i].obfuscated : i \in DOMAIN ms}
Raw(ms, i) == obfuscate_identifier(ms[i].original, method)

\* C2: at every step of the build loop, and in the Mapping Set returned, the
\* obfuscated names are pairwise distinct, and used_names is the set of the
\* names assigned so far.
C2_DistinctObfuscated ==
    /\ \A i, j \in DOMAIN mappings :
          i # j => mappings[i].obfuscated # mappings[j].obfuscated
    /\ used_names = Obfuscateds(mappings)

\* C2 witness: the build has returned; two originals had the same raw
\* transform, and the natural candidate of an original (k) was the name an
\* earlier original (l) had been given with a _N suffix.
C2_Witness ==
    /\ builds = 1
    /\ \E i, j \in DOMAIN mappings : i # j /\ Raw(mappings, i) = Raw(mappings, j)
    /\ \E k, l \in DOMAIN mappings :
          /\ k # l
          /\ Raw(mappings, k) = mappings[l].obfuscated
          /\ mappings[l].obfuscated # Raw(mappings, l)
          /\ mappings[k].obfuscated # Raw(mappings, k)

\* C3: no excluded name is ever an original, and the originals of the Mapping
\* Set returned are exactly the non-empty names of the input that are not
\* excluded, each in exactly one mapping.
C3_Originals ==
    /\ Originals(mappings) \cap exclude = {}
    /\ builds = 1 =>
          /\ Originals(mappings) = {c \in all_classes : c # <<>> /\ c \notin exclude}
          /\ Len(mappings) = Cardinality(Originals(mappings))

\* C3 witness: the build of {"", "btn", "active", "hidden"} with "active"
\* excluded has returned the originals "btn" and "hidden".
C3_Witness ==
    /\ builds = 1
    /\ all_classes = {<<>>, btn, active, hidden}
    /\ exclude = {active}
    /\ method = "shift"
    /\ Originals(mappings) = {btn, hidden}

\* C4: the Mapping Set returned is ordered by non-increasing length of the
\* original, and originals of equal length are in ascending lexicographic order.
C4_Order ==
    builds = 1 =>
        \A i, j \in DOMAIN mappings :
            i < j =>
                \/ Len(mappings[i].original) > Len(mappings[j].original)
                \/ /\ Len(mappings[i].original) = Len(mappings[j].original)
                   /\ StrLess(mappings[i].original, mappings[j].original)

\* C4 witness: a Mapping Set has been returned in which two originals of equal
\* length are followed by a shorter one.
C4_Witness ==
    /\ builds = 1
    /\ \E i, j, k \in DOMAIN mappings :
          /\ i < j /\ j < k
          /\ Len(mappings[i].original) = Len(mappings[j].original)
          /\ Len(mappings[j].original) > Len(mappings[k].original)

\* the names of the input that no mapping renames
Unrenamed == {c \in all_classes : c \notin Originals(mappings)}

\* C12: in the Mapping Set returned, no obfuscated name is a name of the
\* input that is left unrenamed, so the lookup of process_html_content gives
\* distinct names to distinct class names of the input.
C12_InjectiveOverAll ==
    builds = 1 =>
        /\ Obfuscateds(mappings) \cap Unrenamed = {}
        /\ \A c, d \in all_classes :
              c # d => Lookup(mappings, c) # Lookup(mappings, d)

-----------------------------------------------------------------------------
(* Properties of process_css_content (SpecCss) *)

\* The whole-token replacement as the specification words it: .<original>
\* matches when no identifier character (letter, digit, _ or -) follows it.
WholeTokenAt(text, original) ==
    /\ Len(text) >= 1 + Len(original)
    /\ text[1] = "."
    /\ SubSeq(text, 2, 1 + Len(original)) = original
    /\ Len(text) > 1 + Len(original) => ~IsNameChar(text[2 + Len(original)])

RECURSIVE WholeTokenSub(_, _, _)
WholeTokenSub(original, replacement, text) ==
    IF text = <<>> THEN <<>>
    ELSE IF WholeTokenAt(text, original)
         THEN replacement \o WholeTokenSub(original, replacement,
                                           SubSeq(text, 2 + Len(original), Len(text)))
         ELSE <<text[1]>> \o WholeTokenSub(original, replacement, Tail(text))

\* C1: with a single mapping, process_css_content replaces .<original> only
\* where no identifier character follows it, and leaves every other
\* occurrence as it is; .btn{color:red}.btn-primary{color:blue} with
\* btn -> ewq gives .ewq{color:red}.btn-primary{color:blue}.
C1_WholeToken ==
    (pc = "returned" /\ Len(mappings) = 1) =>
        /\ rewritten = WholeTokenSub(mappings[1].original,
                                     <<".">> \o mappings[1].obfuscated, content)
        /\ (/\ mappings = <<ClassMapping(btn, ewq)>>
            /\ content = <<".">> \o btn \o color_red \o <<".">> \o btn_primary \o color_blue)
           => rewritten = <<".">> \o ewq \o color_red \o <<".">> \o btn_primary \o color_blue

\* The simultaneous replacement: every class selector of the text, a "."
\* with the ident token that follows it, gets the name that the class
\* attribute token gets in process_html_content; all else is copied.
RECURSIVE SimultaneousSub(_, _)
SimultaneousSub(text, ms) ==
    IF text = <<>> THEN <<>>
    ELSE IF text[1] = "." /\ IsIdent(NameRun(Tail(text)))
         THEN LET run == NameRun(Tail(text))
              IN <<".">> \o Lookup(ms, run)
                         \o SimultaneousSub(SubSeq(text, 2 + Len(run), Len(text)), ms)
         ELSE <<text[1]>> \o SimultaneousSub(Tail(text), ms)

\* C11: the output of process_css_content is the input with every class
\* selector .X replaced by .M(X), M(X) being the name process_html_content
\* gives the class attribute token X: applying the mappings one after another
\* equals applying them all at once.  Stated for texts without "-", where a
\* word boundary and the end of an ident token are the same place.
C11_Consistent ==
    (pc = "returned" /\ "-" \notin Range(content)) =>
        rewritten = SimultaneousSub(content, mappings)

-----------------------------------------------------------------------------
(* Properties of obfuscate_website (Spec) *)

Scanned == Range(css_files) \cup Range(html_files)
AttemptedIn(phase) == {f \in Scanned : <<phase, f>> \in attempted}
ErrorsOf(kind) ==
    {stats.errors[i].file : i \in {k \in DOMAIN stats.errors : stats.errors[k].kind = kind}}
ProcessedCss == {stats.processed_css_files[i].original : i \in DOMAIN stats.processed_css_files}
ProcessedHtml == {stats.processed_html_files[i].original : i \in DOMAIN stats.processed_html_files}

\* C6: every scanned file has, at every moment of the run, the content it had
\* when the run began, and no output is written to the name of a scanned file.
C6_OriginalsUntouched ==
    /\ \A f \in Scanned : fs[f] = fs0[f]
    /\ \A i \in DOMAIN writes : writes[i] \notin Scanned

\* C7: when the method is none of shift, hash and hex, no project file is read
\* and none is written, and the run ends with the error in stats['errors'].
C7_InvalidMethodAbortsFirst ==
    method \notin Methods =>
        /\ reads = {}
        /\ writes = <<>>
        /\ pc = "done" => ErrorsOf("Unknown obfuscation method") # {}

PhaseNo(phase) ==
    CASE phase = "scan_css" -> 1
      [] phase = "scan_html" -> 2
      [] phase = "rewrite_css" -> 3
      [] phase = "rewrite_html" -> 4

Phases == {"scan_css", "scan_html", "rewrite_css", "rewrite_html"}

PhaseOfError(kind) ==
    CASE kind = "CSS scan error" -> "scan_css"
      [] kind = "HTML scan error" -> "scan_html"
      [] kind = "CSS process error" -> "rewrite_css"
      [] kind = "HTML process error" -> "rewrite_html"

FilesOf(phase) ==
    IF phase \in {"scan_css", "rewrite_css"} THEN Range(css_files) ELSE Range(html_files)

\* what the failure of a file leaves in the statistics: the files a rewrite
\* phase has attempted are those with an error entry of that phase and those
\* in its processed list, and no file is both; a file a scan phase has
\* attempted has an error entry of that phase or has been read
FailureRecorded ==
    /\ AttemptedIn("rewrite_css") = ErrorsOf("CSS process error") \cup ProcessedCss
    /\ ErrorsOf("CSS process error") \cap ProcessedCss = {}
    /\ AttemptedIn("rewrite_html") = ErrorsOf("HTML process error") \cup ProcessedHtml
    /\ ErrorsOf("HTML process error") \cap ProcessedHtml = {}
    /\ ErrorsOf("CSS scan error") \subseteq AttemptedIn("scan_css")
    /\ ErrorsOf("HTML scan error") \subseteq AttemptedIn("scan_html")
    /\ AttemptedIn("scan_css") \subseteq ErrorsOf("CSS scan error") \cup reads
    /\ AttemptedIn("scan_html") \subseteq ErrorsOf("HTML scan error") \cup reads

C9_Barrier ==
    /\ [](/\ builds \in {0, 1}
          /\ (writes # <<>> \/ pc \in {"rewrite_css", "rewrite_html"}) =>
                /\ builds = 1
                /\ AttemptedIn("scan_css") = Range(css_files)
                /\ AttemptedIn("scan_html") = Range(html_files)
                /\ stats.class_mappings = mappings)
    /\ [][builds = 1 => (builds' = 1 /\ mappings' = mappings)]_vars

\* C9 witness: a run is over that rewrote a CSS file and an HTML file with a
\* Mapping Set that is not empty.
C9_Witness ==
    /\ pc = "done"
    /\ mappings # <<>>
    /\ ProcessedCss # {}
    /\ ProcessedHtml # {}

\* C10: when a run with create_backup = true has gone through the rewrite
\* phases, every scanned file has a .backup copy of its original content,
\* listed in stats['backups_created'], and is listed as processed.
C10_Backup ==
    (pc = "done" /\ create_backup /\ builds = 1) =>
        \A f \in Scanned :
            /\ BackupPath(f) \in DOMAIN fs
            /\ fs[BackupPath(f)] = CreateBackupCopy(fs0, f)[BackupPath(f)]
            /\ BackupPath(f) \in Range(stats.backups_created)
            /\ f \in ProcessedCss \cup ProcessedHtml

====
